---- MODULE Spec2Model ----
(***************************************************************************)
(* A model of rheeder (src/src/rheeder/rheeder.py): the one-method Reader   *)
(* interface read(path) and its five implementations, together with the    *)
(* collaborators they call (os.path.join, open, the S3 client, the PyGithub *)
(* repository handle and base64.b64decode).                                 *)
(*                                                                         *)
(* Strings are sequences of one-character strings, byte strings and decoded *)
(* text are sequences of integers (byte values / code points).              *)
(***************************************************************************)
EXTENDS Integers, Sequences, FiniteSets, TLC

\* ------------------------------------------------------------------------
\* Bounds
\* ------------------------------------------------------------------------
MaxPathLen == 2      \* longest path / root string, in characters
MaxContentLen == 4   \* longest base64 content field, in characters

\* ------------------------------------------------------------------------
\* Value universes
\* ------------------------------------------------------------------------
SeqsUpTo(S, n) == UNION {[1..k -> S] : k \in 0..n}

PathChars == {"/", "a"}
PathStrings == SeqsUpTo(PathChars, MaxPathLen)

\* file contents: empty, "a", a lone CR, "a\r\na", U+00E9 (0xC3 0xA9), U+20AC
\* (0xE2 0x82 0xAC), U+1F600 (0xF0 0x9F 0x98 0x80), and three byte strings that
\* are not UTF-8 (a truncated sequence, a stray continuation, a surrogate)
FileBodies ==
    {<<>>, <<97>>, <<13>>, <<97, 13, 10, 97>>, <<195, 169>>, <<226, 130, 172>>,
     <<240, 159, 152, 128>>, <<195>>, <<97, 169>>, <<237, 160, 128>>}

ObjectBodies == {<<>>, <<0>>, <<0, 255>>}

Buckets == {"b1", "b2"}

\* an alphabet character (value 16), the pad and a line break
ContentChars == {"Q", "=", "\n"}
Contents == SeqsUpTo(ContentChars, MaxContentLen)

None == "None"

Return(v) == [kind |-> "return", value |-> v]
Raise(e) == [kind |-> "raise", error |-> e]
NoResult == [kind |-> "none"]

\* one entry of the log of the calls a read makes: the function called, its
\* arguments, and the error it raised (None when it returned)
Call(fn, args, raised) == [fn |-> fn, args |-> args, raised |-> raised]

\* ------------------------------------------------------------------------
\* os.path.join (posixpath.join) with two arguments
\* ------------------------------------------------------------------------
startswith_sep(s) == Len(s) > 0 /\ s[1] = "/"
endswith_sep(s) == Len(s) > 0 /\ s[Len(s)] = "/"

os_path_join(a, b) ==
    IF startswith_sep(b) THEN b
    ELSE IF a = <<>> \/ endswith_sep(a) THEN a \o b
    ELSE a \o <<"/">> \o b

\* ------------------------------------------------------------------------
\* The file system behind open()
\* ------------------------------------------------------------------------
Absent == [kind |-> "absent"]
Dir == [kind |-> "dir"]
File(bytes) == [kind |-> "file", bytes |-> bytes]

Name == <<"a">>
Nodes == {<<>>, <<Name>>, <<Name, Name>>}
CwdNodes == {<<>>, <<Name>>}

Lookup(tree, n) == IF n \in DOMAIN tree THEN tree[n] ELSE Absent

Parent(n) == SubSeq(n, 1, Len(n) - 1)

WellFormed(tree) ==
    /\ tree[<<>>] = Dir
    /\ \A n \in DOMAIN tree :
          (n # <<>> /\ tree[n] # Absent) => tree[Parent(n)] = Dir

FileSystems ==
    {t \in [Nodes -> {Absent, Dir} \cup {File(b) : b \in FileBodies}] : WellFormed(t)}

RECURSIVE SplitFrom(_, _, _, _)
SplitFrom(s, i, cur, acc) ==
    IF i > Len(s) THEN (IF cur = <<>> THEN acc ELSE Append(acc, cur))
    ELSE IF s[i] = "/"
         THEN SplitFrom(s, i + 1, <<>>, IF cur = <<>> THEN acc ELSE Append(acc, cur))
         ELSE SplitFrom(s, i + 1, Append(cur, s[i]), acc)

\* the non-empty components of a path string
Components(s) == SplitFrom(s, 1, <<>>, <<>>)

RECURSIVE Walk(_, _, _, _)
Walk(tree, node, comps, trailing) ==
    LET kind == Lookup(tree, node).kind IN
    IF comps = <<>>
    THEN IF kind = "absent" THEN [ok |-> FALSE, error |-> "FileNotFoundError"]
         ELSE IF kind = "dir" THEN [ok |-> FALSE, error |-> "IsADirectoryError"]
         ELSE IF trailing THEN [ok |-> FALSE, error |-> "NotADirectoryError"]
         ELSE [ok |-> TRUE, node |-> node]
    ELSE IF kind = "absent" THEN [ok |-> FALSE, error |-> "FileNotFoundError"]
         ELSE IF kind = "file" THEN [ok |-> FALSE, error |-> "NotADirectoryError"]
         ELSE Walk(tree, Append(node, Head(comps)), Tail(comps), trailing)

\* open(name) for reading: the node of the regular file, or the OSError raised
open_(tree, dir, name) ==
    IF name = <<>> THEN [ok |-> FALSE, error |-> "FileNotFoundError"]
    ELSE Walk(tree, IF startswith_sep(name) THEN <<>> ELSE dir,
              Components(name), endswith_sep(name))

\* ------------------------------------------------------------------------
\* f.read() of a text-mode file opened with encoding="utf-8"
\* ------------------------------------------------------------------------
IsContinuation(b) == b >= 128 /\ b <= 191

\* the number of continuation bytes the lead byte b announces (-1: b cannot
\* start a sequence: a continuation byte, 0xC0, 0xC1 or above 0xF4)
utf8_following(b) ==
    IF b < 128 THEN 0
    ELSE IF b >= 194 /\ b <= 223 THEN 1
    ELSE IF b >= 224 /\ b <= 239 THEN 2
    ELSE IF b >= 240 /\ b <= 244 THEN 3
    ELSE 0 - 1

\* the second byte of a sequence is further restricted after some lead bytes:
\* no overlong forms (E0, F0), no surrogates (ED), nothing above U+10FFFF (F4)
utf8_second_ok(b, c) ==
    IF b = 224 THEN c >= 160 /\ c <= 191
    ELSE IF b = 237 THEN c >= 128 /\ c <= 159
    ELSE IF b = 240 THEN c >= 144 /\ c <= 191
    ELSE IF b = 244 THEN c >= 128 /\ c <= 143
    ELSE IsContinuation(c)

\* the code point of one well-formed sequence of 1 to 4 bytes
utf8_code_point(q) ==
    IF Len(q) = 1 THEN q[1]
    ELSE IF Len(q) = 2 THEN (q[1] - 192) * 64 + (q[2] - 128)
    ELSE IF Len(q) = 3
    THEN (q[1] - 224) * 4096 + (q[2] - 128) * 64 + (q[3] - 128)
    ELSE (q[1] - 240) * 262144 + (q[2] - 128) * 4096 + (q[3] - 128) * 64
         + (q[4] - 128)

\* strict UTF-8 decoding (errors="strict")
RECURSIVE utf8_decode(_)
utf8_decode(bytes) ==
    IF bytes = <<>> THEN [ok |-> TRUE, text |-> <<>>]
    ELSE LET b == Head(bytes)
             n == utf8_following(b)
         IN  IF /\ n >= 0
                /\ Len(bytes) >= n + 1
                /\ n >= 1 => utf8_second_ok(b, bytes[2])
                /\ \A i \in 3..(n + 1) : IsContinuation(bytes[i])
             THEN LET rest == utf8_decode(SubSeq(bytes, n + 2, Len(bytes))) IN
                  IF rest.ok
                  THEN [ok |-> TRUE,
                        text |-> <<utf8_code_point(SubSeq(bytes, 1, n + 1))>>
                                 \o rest.text]
                  ELSE rest
             ELSE [ok |-> FALSE, error |-> "UnicodeDecodeError"]

\* universal newlines (newline=None): "\r\n" and "\r" are read as "\n"
RECURSIVE translate_newlines(_)
translate_newlines(text) ==
    IF text = <<>> THEN <<>>
    ELSE IF Head(text) = 13
         THEN IF Len(text) >= 2 /\ text[2] = 10
              THEN <<10>> \o translate_newlines(Tail(Tail(text)))
              ELSE <<10>> \o translate_newlines(Tail(text))
         ELSE <<Head(text)>> \o translate_newlines(Tail(text))

f_read(bytes) ==
    LET d == utf8_decode(bytes) IN
    IF d.ok THEN [ok |-> TRUE, text |-> translate_newlines(d.text)] ELSE d

\* (variant) the handle is closed only when the body returns
with_exit_leak_on_raise(open_handles, h, raised) ==
    IF raised THEN open_handles ELSE open_handles \ {h}

\* leaving the with block closes the handle whether or not the body raised
with_exit(open_handles, h, raised) == open_handles \ {h}

\* ------------------------------------------------------------------------
\* base64.b64decode(s) with validate=False: binascii.a2b_base64, non-strict
\* ------------------------------------------------------------------------
B64Alphabet ==
    << "A", "B", "C", "D", "E", "F", "G", "H", "I", "J", "K", "L", "M",
       "N", "O", "P", "Q", "R", "S", "T", "U", "V", "W", "X", "Y", "Z",
       "a", "b", "c", "d", "e", "f", "g", "h", "i", "j", "k", "l", "m",
       "n", "o", "p", "q", "r", "s", "t", "u", "v", "w", "x", "y", "z",
       "0", "1", "2", "3", "4", "5", "6", "7", "8", "9", "+", "/" >>

IsB64Char(c) == \E i \in DOMAIN B64Alphabet : B64Alphabet[i] = c
B64Value(c) == (CHOOSE i \in DOMAIN B64Alphabet : B64Alphabet[i] = c) - 1

RECURSIVE a2b_base64(_, _, _, _, _, _)
a2b_base64(s, i, quad_pos, leftchar, pads, out) ==
    IF i > Len(s)
    THEN IF quad_pos # 0 THEN [ok |-> FALSE, error |-> "binascii.Error"]
         ELSE [ok |-> TRUE, bytes |-> out]
    ELSE IF s[i] = "="
    THEN IF quad_pos >= 2 /\ quad_pos + pads + 1 >= 4
         THEN [ok |-> TRUE, bytes |-> out]
         ELSE a2b_base64(s, i + 1, quad_pos, leftchar,
                         IF quad_pos >= 2 THEN pads + 1 ELSE pads, out)
    ELSE IF ~IsB64Char(s[i])
    THEN a2b_base64(s, i + 1, quad_pos, leftchar, pads, out)
    ELSE LET v == B64Value(s[i]) IN
         IF quad_pos = 0 THEN a2b_base64(s, i + 1, 1, v, 0, out)
         ELSE IF quad_pos = 1
         THEN a2b_base64(s, i + 1, 2, v % 16, 0,
                         Append(out, (leftchar * 4 + v \div 16) % 256))
         ELSE IF quad_pos = 2
         THEN a2b_base64(s, i + 1, 3, v % 4, 0,
                         Append(out, (leftchar * 16 + v \div 4) % 256))
         ELSE a2b_base64(s, i + 1, 0, 0, 0,
                         Append(out, (leftchar * 64 + v) % 256))

b64decode(s) == a2b_base64(s, 1, 0, 0, 0, <<>>)

\* ------------------------------------------------------------------------
\* The clients handed to the readers
\* ------------------------------------------------------------------------
Object(body) == [kind |-> "object", body |-> body]

\* boto3 client.get_object(Bucket=..., Key=...): the response, or ClientError
get_object(store, Bucket, Key) ==
    IF <<Bucket, Key>> \in DOMAIN store /\ store[<<Bucket, Key>>] # Absent
    THEN [ok |-> TRUE, response |-> [Body |-> store[<<Bucket, Key>>].body]]
    ELSE [ok |-> FALSE, error |-> "ClientError"]

ContentFile(content) == [kind |-> "ContentFile", content |-> content]

\* pygithub Repository.get_contents(path): one ContentFile for a file, a list
\* for a directory, UnknownObjectException when the path does not exist
get_contents(repo, path) ==
    IF path \notin DOMAIN repo \/ repo[path] = Absent
    THEN [ok |-> FALSE, error |-> "UnknownObjectException"]
    ELSE IF repo[path] = Dir THEN [ok |-> TRUE, value |-> [kind |-> "list"]]
    ELSE [ok |-> TRUE, value |-> repo[path]]

\* ------------------------------------------------------------------------
\* The five read methods.  Each yields the outcome of the call (returned
\* value or raised error), the calls it made in order, and the file handles
\* it leaves open.
\* ------------------------------------------------------------------------
Outcome(r, c, h) == [result |-> r, calls |-> c, handles |-> h]

\* (variant) errors of open and f.read are caught and re-raised as one
\* reader-level error
LocalReaderImp_read_wrapped(prefix, tree, dir, path) ==
    LET name == os_path_join(prefix, path)
        j == Call("os.path.join", <<prefix, path>>, None)
        f == open_(tree, dir, name)
    IN  IF ~f.ok
        THEN Outcome(Raise("ReaderError"), <<j, Call("open", <<name>>, f.error)>>, {})
        ELSE LET r == f_read(tree[f.node].bytes) IN
             Outcome(IF r.ok THEN Return(r.text) ELSE Raise("ReaderError"),
                     <<j, Call("open", <<name>>, None),
                       Call("f.read", <<f.node>>, IF r.ok THEN None ELSE r.error)>>,
                     {})

LocalReaderImp_read(prefix, tree, dir, path) ==
    LET name == os_path_join(prefix, path)
        j == Call("os.path.join", <<prefix, path>>, None)
        f == open_(tree, dir, name)
    IN  IF ~f.ok
        THEN Outcome(Raise(f.error), <<j, Call("open", <<name>>, f.error)>>, {})
        ELSE LET r == f_read(tree[f.node].bytes) IN
             Outcome(IF r.ok THEN Return(r.text) ELSE Raise(r.error),
                     <<j, Call("open", <<name>>, None),
                       Call("f.read", <<f.node>>, IF r.ok THEN None ELSE r.error)>>,
                     with_exit({f.node}, f.node, ~r.ok))

RECURSIVE lstrip_sep(_)
lstrip_sep(s) == IF startswith_sep(s) THEN lstrip_sep(Tail(s)) ELSE s

\* (variant) leading separators are stripped from the key before the request
S3ReaderImp_read_strip_key(store, Bucket, path) ==
    LET key == lstrip_sep(path)
        g == get_object(store, Bucket, key)
        args == [Bucket |-> Bucket, Key |-> key]
    IN  IF ~g.ok
        THEN Outcome(Raise(g.error), <<Call("get_object", args, g.error)>>, {})
        ELSE Outcome(Return(g.response.Body),
                     <<Call("get_object", args, None), Call("Body.read", <<>>, None)>>,
                     {})

\* (variant) a failed request is issued once more
S3ReaderImp_read_retry(store, Bucket, path) ==
    LET g == get_object(store, Bucket, path)
        args == [Bucket |-> Bucket, Key |-> path]
    IN  IF ~g.ok
        THEN Outcome(Raise(g.error),
                     <<Call("get_object", args, g.error),
                       Call("get_object", args, g.error)>>, {})
        ELSE Outcome(Return(g.response.Body),
                     <<Call("get_object", args, None), Call("Body.read", <<>>, None)>>,
                     {})

S3ReaderImp_read(store, Bucket, path) ==
    LET g == get_object(store, Bucket, path)
        args == [Bucket |-> Bucket, Key |-> path]
    IN  IF ~g.ok
        THEN Outcome(Raise(g.error), <<Call("get_object", args, g.error)>>, {})
        ELSE Outcome(Return(g.response.Body),
                     <<Call("get_object", args, None), Call("Body.read", <<>>, None)>>,
                     {})

\* (variant) b64decode(..., validate=True): characters outside the alphabet
\* are an error instead of being discarded
GithubGetContentsReaderImp_read_validate(repo, path) ==
    LET g == get_contents(repo, path) IN
    IF ~g.ok
    THEN Outcome(Raise(g.error), <<Call("get_contents", <<path>>, g.error)>>, {})
    ELSE IF g.value.kind # "ContentFile"
    THEN Outcome(Raise("AttributeError"),
                 <<Call("get_contents", <<path>>, None),
                   Call("getattr", <<"content">>, "AttributeError")>>, {})
    ELSE LET c == g.value.content
             d == IF \E i \in DOMAIN c : ~IsB64Char(c[i]) /\ c[i] # "="
                  THEN [ok |-> FALSE, error |-> "binascii.Error"]
                  ELSE b64decode(c)
         IN  Outcome(IF d.ok THEN Return(d.bytes) ELSE Raise(d.error),
                     <<Call("get_contents", <<path>>, None),
                       Call("getattr", <<"content">>, None),
                       Call("base64.b64decode", <<c>>, IF d.ok THEN None ELSE d.error)>>,
                     {})

\* (variant) a listing or a content field that does not decode reads as empty
GithubGetContentsReaderImp_read_ignore_errors(repo, path) ==
    LET g == get_contents(repo, path) IN
    IF ~g.ok
    THEN Outcome(Raise(g.error), <<Call("get_contents", <<path>>, g.error)>>, {})
    ELSE IF g.value.kind # "ContentFile"
    THEN Outcome(Return(<<>>), <<Call("get_contents", <<path>>, None)>>, {})
    ELSE LET d == b64decode(g.value.content) IN
         Outcome(IF d.ok THEN Return(d.bytes) ELSE Return(<<>>),
                 <<Call("get_contents", <<path>>, None),
                   Call("getattr", <<"content">>, None),
                   Call("base64.b64decode", <<g.value.content>>, None)>>,
                 {})

GithubGetContentsReaderImp_read(repo, path) ==
    LET g == get_contents(repo, path) IN
    IF ~g.ok
    THEN Outcome(Raise(g.error), <<Call("get_contents", <<path>>, g.error)>>, {})
    ELSE IF g.value.kind # "ContentFile"
    THEN Outcome(Raise("AttributeError"),
                 <<Call("get_contents", <<path>>, None),
                   Call("getattr", <<"content">>, "AttributeError")>>, {})
    ELSE LET d == b64decode(g.value.content) IN
         Outcome(IF d.ok THEN Return(d.bytes) ELSE Raise(d.error),
                 <<Call("get_contents", <<path>>, None),
                   Call("getattr", <<"content">>, None),
                   Call("base64.b64decode", <<g.value.content>>,
                        IF d.ok THEN None ELSE d.error)>>,
                 {})

\* os.path.join takes no keyword arguments: passing encoding= is a TypeError
\* raised before any path is joined
os_path_join_kw(a, b, kwargs) ==
    IF kwargs # {} THEN [ok |-> FALSE, error |-> "TypeError"]
    ELSE [ok |-> TRUE, value |-> os_path_join(a, b)]

GithubCloneRepoReaderImp_read(tree_dir, tree, dir, path) ==
    LET j == os_path_join_kw(tree_dir, path, {"encoding"}) IN
    IF ~j.ok
    THEN Outcome(Raise(j.error),
                 <<Call("os.path.join", <<tree_dir, path>>, j.error)>>, {})
    ELSE \* a str is not a context manager
         Outcome(Raise("TypeError"),
                 <<Call("os.path.join", <<tree_dir, path>>, None),
                   Call("with", <<j.value>>, "TypeError")>>, {})

\* (variant) a trailing separator is dropped from the value handed back
TransparentReaderImp_read_stripped(path) ==
    Outcome(Return(IF endswith_sep(path) THEN SubSeq(path, 1, Len(path) - 1) ELSE path),
            <<>>, {})

TransparentReaderImp_read(path) == Outcome(Return(path), <<>>, {})

\* ------------------------------------------------------------------------
\* State
\* ------------------------------------------------------------------------
VARIABLES
    fs,                \* the file system: node -> Absent, Dir or File(bytes)
    cwd,               \* the process's working directory (a node)
    path_prefix,       \* LocalReaderImp.path_prefix
    s3,                \* the objects behind S3ReaderImp.client
    bucket,            \* S3ReaderImp.bucket
    github,            \* what GithubGetContentsReaderImp.repo serves, by path
    working_tree_dir,  \* GithubCloneRepoReaderImp.repo.working_tree_dir
    op,                \* the class whose read ran last ("None" before any)
    arg,               \* its path argument
    result,            \* its outcome: Return(value) or Raise(error)
    calls,             \* the calls it made, in order
    handles,           \* file handles open in the process
    first              \* history: the first read of the run and its outcome

config == <<path_prefix, bucket, working_tree_dir>>
stores == <<fs, cwd, s3, github>>
vars == <<fs, cwd, path_prefix, s3, bucket, github, working_tree_dir,
          op, arg, result, calls, handles, first>>

\* ------------------------------------------------------------------------
\* Initial states: the readers constructed over some backing stores
\* ------------------------------------------------------------------------
\* a small world of each kind, used where another part is the one varied
DefaultFs ==
    [n \in Nodes |-> IF Len(n) <= 1 THEN Dir
                     ELSE File(<<97, 13, 10, 97>>)]
DefaultPrefix == <<"a">>
DefaultTreeDir == <<"/", "a">>

S3Store(o1, o2) ==
    [k \in Buckets \X PathStrings |->
        IF k[2] = <<"a">> THEN (IF k[1] = "b1" THEN o1 ELSE o2) ELSE Absent]
DefaultS3 == S3Store(Object(<<0>>), Object(<<255>>))

GithubRepo(e) ==
    [p \in PathStrings |->
        IF p = <<>> THEN Dir ELSE IF p = <<"a">> THEN e ELSE Absent]
DefaultGithub == GithubRepo(ContentFile(<<"Q", "Q", "=", "=">>))

WorkingTreeDirs == {<<"/">>, <<"/", "a">>}

\* The three backing stores are varied one at a time: no read method is
\* given a store other than its own.
InitFiles ==
    /\ fs \in FileSystems
    /\ cwd \in {n \in CwdNodes : fs[n] = Dir}
    /\ \/ path_prefix \in PathStrings /\ working_tree_dir = DefaultTreeDir
       \/ path_prefix = DefaultPrefix /\ working_tree_dir \in WorkingTreeDirs
    /\ s3 = DefaultS3 /\ bucket = "b1"
    /\ github = DefaultGithub

InitS3 ==
    /\ \E o1, o2 \in {Absent} \cup {Object(b) : b \in ObjectBodies} :
          s3 = S3Store(o1, o2)
    /\ bucket \in Buckets
    /\ fs = DefaultFs /\ cwd = <<>>
    /\ path_prefix = DefaultPrefix /\ working_tree_dir = DefaultTreeDir
    /\ github = DefaultGithub

InitGithub ==
    /\ \E e \in {Absent, Dir} \cup {ContentFile(c) : c \in Contents} :
          github = GithubRepo(e)
    /\ fs = DefaultFs /\ cwd = <<>>
    /\ path_prefix = DefaultPrefix /\ working_tree_dir = DefaultTreeDir
    /\ s3 = DefaultS3 /\ bucket = "b1"

InitLast ==
    /\ op = None
    /\ arg = <<>>
    /\ result = NoResult
    /\ calls = <<>>
    /\ handles = {}
    /\ first = [op |-> None]

Init == (InitFiles \/ InitS3 \/ InitGithub) /\ InitLast

\* ------------------------------------------------------------------------
\* Actions: one call of read on one of the readers
\* ------------------------------------------------------------------------
Finish(name, path, out) ==
    /\ op' = name
    /\ arg' = path
    /\ result' = out.result
    /\ calls' = out.calls
    /\ handles' = handles \cup out.handles

\* (variant) the reader keeps the joined path as its new prefix
LocalRead_rebase(path) ==
    /\ Finish("LocalReaderImp", path, LocalReaderImp_read(path_prefix, fs, cwd, path))
    /\ path_prefix' = os_path_join(path_prefix, path)
    /\ UNCHANGED <<bucket, working_tree_dir, stores>>

LocalRead(path) ==
    /\ Finish("LocalReaderImp", path, LocalReaderImp_read(path_prefix, fs, cwd, path))
    /\ UNCHANGED <<config, stores>>

S3Read(path) ==
    /\ Finish("S3ReaderImp", path, S3ReaderImp_read(s3, bucket, path))
    /\ UNCHANGED <<config, stores>>

GithubGetContentsRead(path) ==
    /\ Finish("GithubGetContentsReaderImp", path,
              GithubGetContentsReaderImp_read(github, path))
    /\ UNCHANGED <<config, stores>>

GithubCloneRepoRead(path) ==
    /\ Finish("GithubCloneRepoReaderImp", path,
              GithubCloneRepoReaderImp_read(working_tree_dir, fs, cwd, path))
    /\ UNCHANGED <<config, stores>>

TransparentRead(path) ==
    /\ Finish("TransparentReaderImp", path, TransparentReaderImp_read(path))
    /\ UNCHANGED <<config, stores>>

Next ==
    \/ \E path \in PathStrings : LocalRead(path) /\ UNCHANGED first
    \/ \E path \in PathStrings : S3Read(path) /\ UNCHANGED first
    \/ \E path \in PathStrings : GithubGetContentsRead(path) /\ UNCHANGED first
    \/ \E path \in PathStrings : GithubCloneRepoRead(path) /\ UNCHANGED first
    \/ \E path \in PathStrings : TransparentRead(path) /\ UNCHANGED first

Spec == Init /\ [][Next]_vars

\* The same reads over a few worlds, with the first read of the run and its
\* outcome remembered, and whether a different read has run since.
InitPure ==
    /\ fs = DefaultFs /\ cwd \in CwdNodes
    /\ path_prefix \in {DefaultPrefix, <<"/">>}
    /\ working_tree_dir = DefaultTreeDir
    /\ s3 = DefaultS3 /\ bucket \in Buckets
    /\ github = DefaultGithub
    /\ InitLast

Remember ==
    first' = IF first.op = None
             THEN [op |-> op', arg |-> arg', result |-> result', others |-> FALSE]
             ELSE [first EXCEPT !.others = @ \/ op' # first.op \/ arg' # first.arg]

NextPure ==
    \/ \E path \in PathStrings : LocalRead(path) /\ Remember
    \/ \E path \in PathStrings : S3Read(path) /\ Remember
    \/ \E path \in PathStrings : GithubGetContentsRead(path) /\ Remember
    \/ \E path \in PathStrings : GithubCloneRepoRead(path) /\ Remember
    \/ \E path \in PathStrings : TransparentRead(path) /\ Remember

SpecPure == InitPure /\ [][NextPure]_vars

\* ------------------------------------------------------------------------
\* Properties
\* ------------------------------------------------------------------------
Local == "LocalReaderImp"
S3 == "S3ReaderImp"
Contents_ == "GithubGetContentsReaderImp"
Clone == "GithubCloneRepoReaderImp"
Transparent == "TransparentReaderImp"

\* the file opens and network requests among the calls of the last read
IOCalls == {i \in DOMAIN calls : calls[i].fn \in {"open", "get_object", "get_contents"}}

\* The file the words "root/p" name: p taken relative to the directory root
\* (itself relative to the working directory unless absolute), whatever p
\* starts with.
UnderRoot(root, p) ==
    Walk(fs, IF startswith_sep(root) THEN <<>> ELSE cwd,
         Components(root) \o Components(p),
         IF p = <<>> THEN TRUE ELSE endswith_sep(p))

\* what the words "returns the text of root/p, raises when there is no such
\* file" ask of the outcome of a read
ReadsUnderRoot(root, p) ==
    LET f == UnderRoot(root, p) IN
    IF ~f.ok THEN result.kind = "raise"
    ELSE LET r == f_read(fs[f.node].bytes) IN
         r.ok => result = Return(r.text)

\* C1: when a call made by read raises, read stops there and raises that same
\* error: the raising call is the last call of the read (nothing is retried,
\* nothing runs after it) and the outcome is that error, not a value.
C1_ErrorsPropagate ==
    \A i \in DOMAIN calls :
        calls[i].raised # None =>
            /\ i = Len(calls)
            /\ result = Raise(calls[i].raised)

\* a local read whose file opened and whose f.read() then failed to decode
C1_Witness ==
    /\ op = Local
    /\ Len(calls) = 3
    /\ calls[2].raised = None
    /\ calls[3].raised = "UnicodeDecodeError"
    /\ result = Raise("UnicodeDecodeError")

\* C2: LocalReader(root).read(p) returns the text of the file root/p when it
\* exists and raises when no file exists at root/p, for every root and p.
C2_LocalReadsUnderRoot ==
    op = Local => ReadsUnderRoot(path_prefix, arg)

\* C3: the cloned-repo reader returns the UTF-8 text of W/path whenever that
\* file exists, W being the working tree root.
C3_CloneReadsWorkingTree ==
    op = Clone =>
        LET f == UnderRoot(working_tree_dir, arg) IN
        (f.ok /\ f_read(fs[f.node].bytes).ok) =>
            result = Return(f_read(fs[f.node].bytes).text)

\* C4: no file handle opened by a read is open once the read has finished,
\* whether it returned or raised.
C4_HandlesReleased == handles = {}

\* a local read that opened a file and raised while reading it
C4_Witness ==
    /\ op = Local
    /\ \E i \in DOMAIN calls : calls[i].fn = "open" /\ calls[i].raised = None
    /\ result.kind = "raise"
    /\ handles = {}

\* C5: the object-store reader's request names the configured bucket and the
\* given path as Key, and an object stored there is returned as it is.
C5_S3ReadsBucketKey ==
    op = S3 =>
        /\ calls[1].fn = "get_object"
        /\ calls[1].args = [Bucket |-> bucket, Key |-> arg]
        /\ s3[<<bucket, arg>>] # Absent => result = Return(s3[<<bucket, arg>>].body)
        /\ s3[<<bucket, arg>>] = Absent => result.kind = "raise"

\* a read of a key held by both buckets with different bodies
C5_Witness ==
    /\ op = S3
    /\ bucket = "b2"
    /\ result.kind = "return"
    /\ s3[<<"b1", arg>>] # Absent
    /\ s3[<<"b1", arg>>] # s3[<<"b2", arg>>]

\* C6: for a path that names a single file, the hosted-repo reader returns the
\* base64-decoded bytes of the content field served for that path; the two
\* contents "QQ==" and "QQQQ" decode to the bytes 65 and 65, 4, 16.
C6_ContentsDecoded ==
    (op = Contents_ /\ github[arg].kind = "ContentFile") =>
        LET c == github[arg].content IN
        /\ b64decode(c).ok => result = Return(b64decode(c).bytes)
        /\ c = <<"Q", "Q", "=", "=">> => result = Return(<<65>>)
        /\ c = <<"Q", "Q", "Q", "Q">> => result = Return(<<65, 4, 16>>)

\* a padded content field, decoded to one byte
C6_Witness ==
    /\ op = Contents_
    /\ github[arg].kind = "ContentFile"
    /\ \E i \in DOMAIN github[arg].content : github[arg].content[i] = "="
    /\ result = Return(<<65>>)

\* C7: the hosted-repo reader raises when the path does not exist, when it
\* names a directory (a listing is served), and when the decoder rejects the
\* content field.
C7_ContentsFails ==
    op = Contents_ =>
        /\ github[arg] = Absent => result = Raise("UnknownObjectException")
        /\ github[arg] = Dir => result = Raise("AttributeError")
        /\ (github[arg].kind = "ContentFile" /\ ~b64decode(github[arg].content).ok)
              => result = Raise("binascii.Error")

\* a content field the decoder rejects
C7_Witness ==
    /\ op = Contents_
    /\ github[arg].kind = "ContentFile"
    /\ ~b64decode(github[arg].content).ok
    /\ result.kind = "raise"

\* C8: the transparent reader returns its argument unchanged and never raises.
C8_TransparentIdentity ==
    op = Transparent => result = Return(arg)

\* a transparent read of a non-empty value ending in a separator
C8_Witness ==
    /\ op = Transparent
    /\ endswith_sep(arg)
    /\ result = Return(arg)

\* C9: a read leaves every reader's configuration and every backing store as
\* they were, and a read repeated later in the run, after any other reads,
\* has the outcome it had the first time.
C9_ReadIsPure ==
    [][ /\ UNCHANGED <<config, stores>>
        /\ (first.op # None /\ op' = first.op /\ arg' = first.arg)
              => result' = first.result ]_vars

\* the first read of the run, repeated after a different read, with the
\* outcome it had the first time
C9_Witness ==
    /\ first.op = Local
    /\ first.others
    /\ op = first.op
    /\ arg = first.arg
    /\ result = first.result
    /\ result.kind = "return"

\* C10: a read opens at most one file or issues at most one request: exactly
\* one get-object request for the object-store reader, exactly one
\* get-contents request for the hosted-repo reader, none for the transparent
\* reader.
C10_OneIOCall ==
    /\ Cardinality(IOCalls) <= 1
    /\ op = S3 => Cardinality({i \in DOMAIN calls : calls[i].fn = "get_object"}) = 1
    /\ op = Contents_ =>
          Cardinality({i \in DOMAIN calls : calls[i].fn = "get_contents"}) = 1
    /\ op = Transparent => IOCalls = {}

\* an object-store read whose one request failed
C10_Witness ==
    /\ op = S3
    /\ result.kind = "raise"
    /\ Cardinality(IOCalls) = 1

====
